---- MODULE Spec2Model ----
(***************************************************************************)
(* A model of fuser (include/fuser/fuser.hpp): the serializer<T> and       *)
(* deserializer<T> strategies and the public serialize / deserialize       *)
(* functions, over a model of the nlohmann::json node type they use.       *)
(*                                                                         *)
(* Integer widths are scaled: the 8, 16, 32 and 64 bit types have W8, W16, *)
(* W32 and W64 bits, and arithmetic wraps modulo 2^W64 where the code's    *)
(* wraps modulo 2^64.  Floating values are points of a grid with FloatUnit *)
(* steps per 1.0; the limits of float, double and long double keep their   *)
(* order (min: float > double > long double > 0, max: float < double <     *)
(* long double) and lie above every integer a node can hold.               *)
(***************************************************************************)
EXTENDS Integers, Sequences, FiniteSets, TLC

VARIABLES
    nativeWide, \* build: std::(u)intmax_t is the json library's own number_(unsigned|integer)_t
    ub,         \* what an out-of-range floating-to-integer conversion yields in this run
    call        \* the public call made and its outcome: <<op, type, val, json, result>>

vars == <<nativeWide, ub, call>>

\* the call made: "none", "serialize", "deserialize" or "round_trip"
op == call[1]
\* the template argument T of the call
type == call[2]
\* the value given to serialize
val == call[3]
\* the outcome of serialize, or the node given to deserialize
json == call[4]
\* the outcome of deserialize
result == call[5]

---------------------------------------------------------------------------
\* Bounds of the model.

W8 == 2
W16 == 3
W32 == 4
W64 == 5
\* grid steps per 1.0 of the floating-point grid, and the smallest positive
\* normalized value of each floating type in grid steps
FloatUnit == 4
FloatMin == 3
DoubleMin == 2
LongDoubleMin == 1
\* longest sequence container and Array node enumerated
MaxLen == 2

Pow2(n) == 2 ^ n

---------------------------------------------------------------------------
\* Types (the template arguments the strategies are resolved for).

Prim(n) == [c |-> "prim", n |-> n]
Optional(e) == [c |-> "optional", e |-> e]
UniquePtr(e) == [c |-> "unique_ptr", e |-> e]
Vector(e) == [c |-> "vector", e |-> e]
Deque(e) == [c |-> "deque", e |-> e]
Array(e, n) == [c |-> "array", e |-> e, size |-> n]
Map(k, v) == [c |-> "map", key |-> k, mapped |-> v]
UnorderedMap(k, v) == [c |-> "unordered_map", key |-> k, mapped |-> v]
Fusion(n) == [c |-> "fusion", name |-> n]

UnsignedNames == {"uint8_t", "uint16_t", "uint32_t", "uint64_t"}
SignedNames == {"int8_t", "int16_t", "int32_t", "int64_t"}
IntegerNames == UnsignedNames \cup SignedNames
FloatingNames == {"float", "double", "long double"}
PointerNames == {"void*"}
PrimNames == {"bool", "string"} \cup IntegerNames \cup FloatingNames \cup PointerNames

Bits(n) ==
    CASE n \in {"uint8_t", "int8_t"} -> W8
      [] n \in {"uint16_t", "int16_t"} -> W16
      [] n \in {"uint32_t", "int32_t"} -> W32
      [] n \in {"uint64_t", "int64_t"} -> W64

\* std::numeric_limits<NumericType>::min() and ::max()
WideUnsignedMax == Pow2(W64) - 1
WideSignedMin == -Pow2(W64 - 1)
WideSignedMax == Pow2(W64 - 1) - 1
FloatMax == FloatUnit * Pow2(W64 + 1)
DoubleMax == FloatUnit * Pow2(W64 + 2)
LongDoubleMax == FloatUnit * Pow2(W64 + 3)
Infinity == LongDoubleMax + 1

numeric_limits_min(n) ==
    CASE n \in UnsignedNames -> 0
      [] n \in SignedNames -> -Pow2(Bits(n) - 1)
      [] n = "float" -> FloatMin
      [] n = "double" -> DoubleMin
      [] n = "long double" -> LongDoubleMin

numeric_limits_max(n) ==
    CASE n \in UnsignedNames -> Pow2(Bits(n)) - 1
      [] n \in SignedNames -> Pow2(Bits(n) - 1) - 1
      [] n = "float" -> FloatMax
      [] n = "double" -> DoubleMax
      [] n = "long double" -> LongDoubleMax

---------------------------------------------------------------------------
\* Strings, in the order std::string compares them (the order of the keys of
\* a json object and of a std::map<std::string, V>).

StringOrder ==
    <<"", "(unknown)", "bar", "e", "foo", "i", "i64", "inner", "m", "mid", "u8", "zz">>

StringRank(s) == CHOOSE i \in 1..Len(StringOrder) : StringOrder[i] = s

\* enum class sample_enum : std::size_t { unknown, foo, bar }; "other" is
\* static_cast<sample_enum>(3), a value of the type that no enumerator names
SampleEnum == [c |-> "custom", name |-> "sample_enum"]
SampleEnumValues == {"unknown", "foo", "bar", "other"}
SampleEnumOrdinal(e) ==
    CASE e = "unknown" -> 0 [] e = "foo" -> 1 [] e = "bar" -> 2 [] e = "other" -> 3

\* The adapted structs: the members BOOST_FUSION_ADAPT_STRUCT lists, in order.
FusionMembers(n) ==
    CASE n = "integer_struct" ->
            << [name |-> "u8", type |-> Prim("uint8_t")],
               [name |-> "i64", type |-> Prim("int64_t")] >>
      [] n = "smart_pointer_struct" ->
            << [name |-> "i", type |-> UniquePtr(Prim("int16_t"))],
               [name |-> "e", type |-> UniquePtr(SampleEnum)] >>
      [] n = "struct_with_map" ->
            << [name |-> "m", type |-> Map(SampleEnum, Prim("int8_t"))] >>
      [] n = "wrapper_struct" ->
            << [name |-> "inner", type |-> Fusion("integer_struct")] >>
      [] n = "outer_struct" ->
            << [name |-> "mid", type |-> Fusion("wrapper_struct")] >>

PrimTypes == {Prim(n) : n \in PrimNames}

KeyTypes == {Prim("string"), SampleEnum, Prim("uint8_t")}

Types ==
    PrimTypes \cup {SampleEnum} \cup
    { Optional(Prim("uint8_t")), Optional(Optional(Prim("uint8_t"))),
      UniquePtr(Prim("int8_t")), Optional(Prim("string")),
      Vector(Prim("uint8_t")), Deque(Optional(Prim("int8_t"))),
      Array(Prim("uint8_t"), MaxLen), Array(SampleEnum, MaxLen),
      Map(Prim("string"), Prim("uint8_t")),
      UnorderedMap(SampleEnum, Prim("int8_t")),
      Map(Prim("uint8_t"), Prim("bool")), Optional(Map(Prim("uint8_t"), Prim("bool"))),
      Fusion("integer_struct"), Fusion("smart_pointer_struct"),
      Fusion("struct_with_map"), Fusion("wrapper_struct"), Fusion("outer_struct") }

IsMap(T) == T.c \in {"map", "unordered_map"}
IsSequence(T) == T.c \in {"vector", "deque"}
IsNullable(T) == T.c \in {"optional", "unique_ptr"}

---------------------------------------------------------------------------
\* Values of the types.

StringValues == {"", "foo", "bar"}

FloatSamples(n) ==
    {0} \cup { s * m : s \in {-1, 1},
                       m \in {numeric_limits_min(n), FloatUnit, numeric_limits_max(n)} }

\* the order of the keys of a std::map<K, V> (std::less<K>)
KeyRank(K, x) ==
    CASE K = Prim("string") -> StringRank(x)
      [] K = SampleEnum -> SampleEnumOrdinal(x)
      [] OTHER -> x

RECURSIVE SortedKeys(_, _)
SortedKeys(K, S) ==
    IF S = {} THEN <<>>
    ELSE LET m == CHOOSE x \in S : \A y \in S : KeyRank(K, x) <= KeyRank(K, y)
         IN  <<m>> \o SortedKeys(K, S \ {m})

SeqsUpTo(S, n) == UNION { [1..i -> S] : i \in 0..n }

RECURSIVE Values(_)
RECURSIVE FusionValues(_)
FusionValues(members) ==
    IF members = <<>> THEN { <<>> }
    ELSE { (Head(members).name :> v) @@ rest :
             v \in Values(Head(members).type), rest \in FusionValues(Tail(members)) }

\* a map value: its entries <<key, mapped>> in iteration order, keys distinct.
\* A std::map iterates in key order; the order in which a std::unordered_map
\* iterates is unspecified, so every order is a value.
MapValues(T) ==
    UNION { LET ks == SortedKeys(T.key, K)
                orders == IF T.c = "map" THEN { [i \in 1..Len(ks) |-> i] }
                          ELSE Permutations(1..Len(ks))
            IN  { [i \in 1..Len(ks) |-> <<ks[p[i]], vs[p[i]]>>] :
                    vs \in [1..Len(ks) -> Values(T.mapped)], p \in orders } :
            K \in { K \in SUBSET Values(T.key) : Cardinality(K) <= MaxLen } }

Values(T) ==
    CASE T.c = "prim" ->
            ( CASE T.n = "bool" -> BOOLEAN
                [] T.n = "string" -> StringValues
                [] T.n \in IntegerNames -> numeric_limits_min(T.n)..numeric_limits_max(T.n)
                [] T.n \in FloatingNames -> FloatSamples(T.n)
                [] T.n \in PointerNames -> 0..WideUnsignedMax )
      [] T.c = "custom" -> SampleEnumValues
      [] IsNullable(T) -> {[has |-> FALSE]} \cup {[has |-> TRUE, v |-> x] : x \in Values(T.e)}
      [] IsSequence(T) -> SeqsUpTo(Values(T.e), MaxLen)
      [] T.c = "array" -> [1..T.size -> Values(T.e)]
      [] IsMap(T) -> MapValues(T)
      [] T.c = "fusion" -> FusionValues(FusionMembers(T.name))

---------------------------------------------------------------------------
\* nlohmann::json nodes.  A "number" node is number_integer or number_unsigned
\* and holds an integer of -2^(W64-1) .. 2^W64 - 1; a "float" node is
\* number_float (a double); an object's members are a function from its keys.

Null == [k |-> "null"]
Bool(b) == [k |-> "boolean", b |-> b]
Num(n) == [k |-> "number", n |-> n]
Flt(f) == [k |-> "float", f |-> f]
Str(s) == [k |-> "string", s |-> s]
Arr(items) == [k |-> "array", items |-> items]
Obj(members) == [k |-> "object", members |-> members]

NumberNodes == { Num(n) : n \in WideSignedMin..WideUnsignedMax }
FloatNodes ==
    { Flt(s * m) : s \in {-1, 1},
                   m \in {0, 1, 2, 3, FloatUnit, FloatUnit + 1, FloatMax, FloatMax + 1,
                          DoubleMax, Infinity} }

\* every leaf node, and one empty Array and Object: the inputs of a primitive
LeafNodes ==
    {Null, Bool(TRUE), Bool(FALSE), Arr(<<>>), Obj(<<>>)} \cup
    { Str(s) : s \in StringValues \cup {"(unknown)"} } \cup NumberNodes \cup FloatNodes

\* the nodes tried at a nested position
FewNodes ==
    { Null, Bool(TRUE), Str("foo"), Arr(<<>>),
      Num(-1), Num(0), Num(Pow2(W8) - 1), Num(Pow2(W8)) }

\* the keys tried in the Object given to a map strategy, and the member added
\* to the Object given to a fusion strategy
MapKeyStrings == {"foo", "bar", "zz"}
ExtraMember == "zz"

RECURSIVE NodesFor(_)
RECURSIVE FusionObjects(_)
\* the member functions over a prefix-closed choice: each member left out or
\* given one of the nodes tried for its type
FusionObjects(members) ==
    IF members = <<>> THEN { <<>>, (ExtraMember :> Null) }
    ELSE LET rest == FusionObjects(Tail(members))
         IN  rest \cup { (Head(members).name :> x) @@ r :
                           x \in NodesFor(Head(members).type), r \in rest }

\* the nodes given to deserialize<T>: shaped as T expects, or nearly
NodesFor(T) ==
    CASE T.c \in {"prim", "custom"} -> FewNodes
      [] IsNullable(T) -> NodesFor(T.e) \cup {Null}
      [] IsSequence(T) ->
            {Null, Num(0), Obj(<<>>)} \cup { Arr(s) : s \in SeqsUpTo(NodesFor(T.e), MaxLen) }
      [] T.c = "array" ->
            {Null, Num(0), Obj(<<>>)} \cup { Arr(s) : s \in SeqsUpTo(NodesFor(T.e), T.size + 1) }
      [] IsMap(T) ->
            {Null, Str("foo"), Arr(<<>>)} \cup
            { Obj(f) : f \in UNION { [K -> NodesFor(T.mapped)] :
                                      K \in { K \in SUBSET MapKeyStrings : Cardinality(K) <= MaxLen } } }
      [] T.c = "fusion" ->
            {Null, Str("foo"), Arr(<<>>)} \cup { Obj(f) : f \in FusionObjects(FusionMembers(T.name)) }

DeserializeInputs(T) == IF T.c = "prim" THEN LeafNodes ELSE NodesFor(T)

---------------------------------------------------------------------------
\* Outcomes: a returned value, or a thrown exception with its what() as the
\* sequence of its parts (an outer message first, the cause it quotes after).

Ok(v) == [ok |-> TRUE, v |-> v]
Throw(ex, what) == [ok |-> FALSE, ex |-> ex, what |-> what]

\* the classes derived from nlohmann::json::exception
JsonExceptions == {"type_error", "out_of_range"}

\* type_error 302 / 303 / 304 of the json library
TypeError(expected, j) ==
    Throw("type_error", <<[msg |-> "type must be", expected |-> expected, got |-> j.k]>>)

\* out_of_range 403 of json::at(key)
KeyNotFound(key) ==
    Throw("out_of_range", <<[msg |-> "key not found", at |-> key]>>)

\* the index of the first thrown outcome of a sequence of outcomes, 0 if none
FirstThrow(rs) ==
    IF \A i \in 1..Len(rs) : rs[i].ok THEN 0
    ELSE CHOOSE i \in 1..Len(rs) : ~rs[i].ok /\ \A h \in 1..(i - 1) : rs[h].ok

---------------------------------------------------------------------------
\* json.get<T>() of the json library, as the strategies call it.

ToUnsigned(n) == n % Pow2(W64)
ToSigned(n) == LET m == n % Pow2(W64) IN IF m > WideSignedMax THEN m - Pow2(W64) ELSE m

\* a floating value cut to an integer (toward zero)
Trunc(m) == IF m >= 0 THEN m \div FloatUnit ELSE -((-m) \div FloatUnit)

json_get_bool(j) == IF j.k = "boolean" THEN Ok(j.b) ELSE TypeError("boolean", j)

json_get_string(j) == IF j.k = "string" THEN Ok(j.s) ELSE TypeError("string", j)

\* get<std::uintmax_t>() and get<std::uintptr_t>(): a static_cast of the stored
\* number; u is what the cast of a floating value outside 0 .. 2^W64 - 1 yields
json_get_unsigned(j, native, u) ==
    CASE j.k = "number" -> Ok(ToUnsigned(j.n))
      [] j.k = "float" ->
            IF j.f > -FloatUnit /\ Trunc(j.f) <= WideUnsignedMax
            THEN Ok(Trunc(j.f)) ELSE Ok(ToUnsigned(u))
      [] j.k = "boolean" /\ ~native -> Ok(IF j.b THEN 1 ELSE 0)
      [] OTHER -> TypeError("number", j)

\* get<std::intmax_t>()
json_get_signed(j, native, u) ==
    CASE j.k = "number" -> Ok(ToSigned(j.n))
      [] j.k = "float" ->
            IF Trunc(j.f) >= WideSignedMin /\ Trunc(j.f) <= WideSignedMax
            THEN Ok(Trunc(j.f)) ELSE Ok(ToSigned(u))
      [] j.k = "boolean" /\ ~native -> Ok(IF j.b THEN 1 ELSE 0)
      [] OTHER -> TypeError("number", j)

\* get<long double>(): long double is never the library's number_float_t, so
\* the conversion that also reads a boolean is the one selected
json_get_long_double(j) ==
    CASE j.k = "number" -> Ok(j.n * FloatUnit)
      [] j.k = "float" -> Ok(j.f)
      [] j.k = "boolean" -> Ok(IF j.b THEN FloatUnit ELSE 0)
      [] OTHER -> TypeError("number", j)

\* the json constructor from a floating value: the node holds a double
ToDouble(m) ==
    IF m > DoubleMax THEN Infinity ELSE IF m < -DoubleMax THEN -Infinity ELSE m

---------------------------------------------------------------------------
\* The strategies for bool, std::string, the numeric types and void*.

basic_serializer(n, v) ==
    CASE n = "bool" -> Ok(Bool(v))
      [] n = "string" -> Ok(Str(v))
      [] n \in IntegerNames -> Ok(Num(v))
      [] n \in FloatingNames -> Ok(Flt(ToDouble(v)))

basic_deserializer(n, j) ==
    CASE n = "bool" -> json_get_bool(j)
      [] n = "string" -> json_get_string(j)

numeric_serializer(n, v) == basic_serializer(n, v)

RangeError(n, v) ==
    Throw("invalid_argument",
          <<[msg |-> "is outside allowed range", value |-> v,
             min |-> numeric_limits_min(n), max |-> numeric_limits_max(n)]>>)

numeric_deserializer(n, j, native, u) ==
    LET got == CASE n \in UnsignedNames -> json_get_unsigned(j, native, u)
                 [] n \in SignedNames -> json_get_signed(j, native, u)
                 [] n \in FloatingNames -> json_get_long_double(j)
    IN  IF ~got.ok THEN got
        ELSE IF got.v > numeric_limits_max(n) \/ got.v < numeric_limits_min(n)
             THEN RangeError(n, got.v)
             ELSE Ok(got.v)

pointer_serializer(v) == Ok(Num(v))

pointer_deserializer(j, native, u) == json_get_unsigned(j, native, u)

\* fuser::serializer<sample_enum> and fuser::deserializer<sample_enum>, the
\* specializations the caller registers
sample_enum_serializer(e) ==
    CASE e = "foo" -> Ok(Str("foo"))
      [] e = "bar" -> Ok(Str("bar"))
      [] OTHER -> Ok(Str("(unknown)"))

sample_enum_deserializer(j) ==
    IF j.k # "string" THEN TypeError("string", j)
    ELSE IF j.s = "foo" THEN Ok("foo")
    ELSE IF j.s = "bar" THEN Ok("bar")
    ELSE Ok("unknown")

---------------------------------------------------------------------------
\* serializer<T> and deserializer<T>: the specialization selected for T.
\* env holds what the build and the run fix: env.native (see nativeWide) and
\* env.ub (see ub).

RECURSIVE serializer(_, _)
RECURSIVE deserializer(_, _, _)

\* std::unique_ptr<T>
unique_pointer_serializer(T, v) ==
    IF v.has THEN serializer(T.e, v.v) ELSE Ok(Null)

unique_pointer_deserializer(T, j, env) ==
    IF j.k = "null" THEN Ok([has |-> FALSE])
    ELSE LET r == deserializer(T.e, j, env)
         IN  IF r.ok THEN Ok([has |-> TRUE, v |-> r.v]) ELSE r

\* std::optional<T>
\* a variant of optional_serializer that reads the held value without testing
\* for one: std::optional::value() throws on an empty optional
optional_serializer_without_test(T, v) ==
    IF v.has THEN serializer(T.e, v.v)
    ELSE Throw("bad_optional_access", <<[msg |-> "bad optional access"]>>)

optional_serializer(T, v) ==
    IF v.has THEN serializer(T.e, v.v) ELSE Ok(Null)

\* a variant of optional_deserializer without the is_null() test
optional_deserializer_without_null_test(T, j, env) ==
    LET r == deserializer(T.e, j, env)
    IN  IF r.ok THEN Ok([has |-> TRUE, v |-> r.v]) ELSE r

optional_deserializer(T, j, env) ==
    IF j.k = "null" THEN Ok([has |-> FALSE])
    ELSE LET r == deserializer(T.e, j, env)
         IN  IF r.ok THEN Ok([has |-> TRUE, v |-> r.v]) ELSE r

\* std::map and std::unordered_map.  One turn of the loop of map_serializer:
\* the member it assigns, or what it throws.
KeyError ==
    Throw("logic_error", <<[msg |-> "Map key serializer must output a JSON of type string."]>>)

map_serializer_entry(T, entry) ==
    LET key_serialized == serializer(T.key, entry[1])
    IN  IF ~key_serialized.ok THEN key_serialized
        ELSE IF key_serialized.v.k # "string" THEN KeyError
        ELSE LET mapped == serializer(T.mapped, entry[2])
             IN  IF ~mapped.ok THEN mapped
                 ELSE Ok([first |-> key_serialized.v.s, second |-> mapped.v])

\* the members left by assigning rs[1], rs[2], ... in turn: the last
\* assignment to a key is the one that stays
AssignedMembers(rs) ==
    LET keys == { rs[i].v.first : i \in 1..Len(rs) }
        last(s) == CHOOSE i \in 1..Len(rs) :
                      rs[i].v.first = s /\ \A h \in (i + 1)..Len(rs) : rs[h].v.first # s
    IN  [s \in keys |-> rs[last(s)].v.second]

\* a variant of map_serializer that leaves out the entries whose key does not
\* encode to a string instead of throwing
map_serializer_skipping_keys(T, map) ==
    LET string_key(entry) ==
            LET key_serialized == serializer(T.key, entry[1])
            IN  key_serialized.ok /\ key_serialized.v.k = "string"
        kept == SelectSeq(map, string_key)
        rs == [i \in 1..Len(kept) |-> map_serializer_entry(T, kept[i])]
        f == FirstThrow(rs)
    IN  IF f # 0 THEN rs[f] ELSE Ok(Obj(AssignedMembers(rs)))

\* a variant of map_serializer that keeps the member a key already has, as
\* insert() or emplace() on the object would
map_serializer_keeping_first(T, map) ==
    LET rs == [i \in 1..Len(map) |-> map_serializer_entry(T, map[i])]
        f == FirstThrow(rs)
        keys == { rs[i].v.first : i \in 1..Len(rs) }
        first(s) == CHOOSE i \in 1..Len(rs) :
                       rs[i].v.first = s /\ \A h \in 1..(i - 1) : rs[h].v.first # s
    IN  IF f # 0 THEN rs[f] ELSE Ok(Obj([s \in keys |-> rs[first(s)].v.second]))

map_serializer(T, map) ==
    LET rs == [i \in 1..Len(map) |-> map_serializer_entry(T, map[i])]
        f == FirstThrow(rs)
    IN  IF f # 0 THEN rs[f] ELSE Ok(Obj(AssignedMembers(rs)))

\* the keys of an object in the order items() visits them
ObjectKeys(j) == SortedKeys(Prim("string"), DOMAIN j.members)

\* one turn of the loop of map_deserializer: in map[K] = V the right operand
\* is evaluated first (C++17, which std::optional needs)
map_deserializer_entry(T, key, value, env) ==
    LET mapped == deserializer(T.mapped, value, env)
    IN  IF ~mapped.ok THEN mapped
        ELSE LET k == deserializer(T.key, Str(key), env)
             IN  IF ~k.ok THEN k ELSE Ok([first |-> k.v, second |-> mapped.v])

NotObjectError ==
    Throw("invalid_argument", <<[msg |-> "Map deserializer must get a JSON of type object."]>>)

map_deserializer(T, j, env) ==
    IF j.k # "object" THEN NotObjectError
    ELSE LET ks == ObjectKeys(j)
             rs == [i \in 1..Len(ks) |-> map_deserializer_entry(T, ks[i], j.members[ks[i]], env)]
             f == FirstThrow(rs)
         IN  IF f # 0 THEN rs[f]
             ELSE LET keys == { rs[i].v.first : i \in 1..Len(rs) }
                      last(x) == CHOOSE i \in 1..Len(rs) :
                                    rs[i].v.first = x /\ \A h \in (i + 1)..Len(rs) : rs[h].v.first # x
                      sorted == SortedKeys(T.key, keys)
                  IN  Ok([i \in 1..Len(sorted) |-> <<sorted[i], rs[last(sorted[i])].v.second>>])

\* boost fusion sequences.  fusion_serializer_impl::operator() for one member.
fusion_serializer_impl(member, seq) == serializer(member.type, seq[member.name])

\* a variant of fusion_serializer that leaves out the members that encode to
\* null
fusion_serializer_skipping_null(T, seq) ==
    LET ms == FusionMembers(T.name)
        rs == [i \in 1..Len(ms) |-> fusion_serializer_impl(ms[i], seq)]
        f == FirstThrow(rs)
        kept == { i \in 1..Len(ms) : rs[i].v # Null }
    IN  IF f # 0 THEN rs[f]
        ELSE Ok(Obj([n \in { ms[i].name : i \in kept } |->
                       rs[CHOOSE i \in kept : ms[i].name = n].v]))

fusion_serializer(T, seq) ==
    LET ms == FusionMembers(T.name)
        rs == [i \in 1..Len(ms) |-> fusion_serializer_impl(ms[i], seq)]
        f == FirstThrow(rs)
    IN  IF f # 0 THEN rs[f]
        ELSE Ok(Obj([n \in { ms[i].name : i \in 1..Len(ms) } |->
                       rs[CHOOSE i \in 1..Len(ms) : ms[i].name = n].v]))

\* json.at(member_name)
json_at(j, key) ==
    IF j.k # "object" THEN TypeError("object", j)
    ELSE IF key \notin DOMAIN j.members THEN KeyNotFound(key)
    ELSE Ok(j.members[key])

NoValueError(member, j) ==
    Throw("invalid_argument",
          <<[msg |-> "no value of name", name |-> member.name, type |-> member.type, json |-> j]>>)

InvalidValueError(member, j, what) ==
    Throw("invalid_argument",
          <<[msg |-> "value of name is invalid", name |-> member.name, type |-> member.type,
             json |-> j]>> \o what)

\* a variant of fusion_deserializer_impl that leaves a member without a value
\* in the object as the struct's constructor made it
fusion_deserializer_impl_keeping_default(member, j, env) ==
    LET at == json_at(j, member.name)
        r == IF at.ok THEN deserializer(member.type, at.v, env) ELSE at
    IN  IF r.ok THEN r
        ELSE IF r.ex = "out_of_range" THEN Ok(CHOOSE v \in Values(member.type) : TRUE)
        ELSE IF r.ex \in JsonExceptions THEN NoValueError(member, j)
        ELSE IF r.ex = "invalid_argument" THEN InvalidValueError(member, j, r.what)
        ELSE r

\* fusion_deserializer_impl::operator() for one member: the value it assigns
\* to the member, or what it throws
fusion_deserializer_impl(member, j, env) ==
    LET at == json_at(j, member.name)
        r == IF at.ok THEN deserializer(member.type, at.v, env) ELSE at
    IN  IF r.ok THEN r
        ELSE IF r.ex \in JsonExceptions THEN NoValueError(member, j)
        ELSE IF r.ex = "invalid_argument" THEN InvalidValueError(member, j, r.what)
        ELSE r

\* a variant of fusion_deserializer that refuses an object with a member the
\* struct does not have
fusion_deserializer_rejecting_unknown(T, j, env) ==
    LET ms == FusionMembers(T.name)
        rs == [i \in 1..Len(ms) |-> fusion_deserializer_impl(ms[i], j, env)]
        f == FirstThrow(rs)
    IN  IF j.k = "object" /\ \E n \in DOMAIN j.members : \A i \in 1..Len(ms) : ms[i].name # n
        THEN Throw("invalid_argument", <<[msg |-> "unknown member"]>>)
        ELSE IF f # 0 THEN rs[f]
        ELSE Ok([n \in { ms[i].name : i \in 1..Len(ms) } |->
                   rs[CHOOSE i \in 1..Len(ms) : ms[i].name = n].v])

fusion_deserializer(T, j, env) ==
    LET ms == FusionMembers(T.name)
        rs == [i \in 1..Len(ms) |-> fusion_deserializer_impl(ms[i], j, env)]
        f == FirstThrow(rs)
    IN  IF f # 0 THEN rs[f]
        ELSE Ok([n \in { ms[i].name : i \in 1..Len(ms) } |->
                   rs[CHOOSE i \in 1..Len(ms) : ms[i].name = n].v])

\* std::vector and std::deque
sequence_container_serializer(T, container) ==
    LET rs == [i \in 1..Len(container) |-> serializer(T.e, container[i])]
        f == FirstThrow(rs)
    IN  IF f # 0 THEN rs[f] ELSE Ok(Arr([i \in 1..Len(rs) |-> rs[i].v]))

NotArrayError ==
    Throw("invalid_argument", <<[msg |-> "JSON object should be an array."]>>)

\* a variant of sequence_container_deserializer without the is_array() test:
\* the loop over a node that is no array visits the node itself, and nothing
\* for null
sequence_container_deserializer_without_array_test(T, j, env) ==
    LET items == IF j.k = "array" THEN j.items ELSE IF j.k = "null" THEN <<>> ELSE <<j>>
        rs == [i \in 1..Len(items) |-> deserializer(T.e, items[i], env)]
        f == FirstThrow(rs)
    IN  IF f # 0 THEN rs[f] ELSE Ok([i \in 1..Len(rs) |-> rs[i].v])

sequence_container_deserializer(T, j, env) ==
    IF j.k # "array" THEN NotArrayError
    ELSE LET rs == [i \in 1..Len(j.items) |-> deserializer(T.e, j.items[i], env)]
             f == FirstThrow(rs)
         IN  IF f # 0 THEN rs[f] ELSE Ok([i \in 1..Len(rs) |-> rs[i].v])

\* std::array<T, N>
array_container_serializer(T, container) == sequence_container_serializer(T, container)

ArityError(size, count) ==
    Throw("invalid_argument", <<[msg |-> "Expected values but got", size |-> size, count |-> count]>>)

\* a variant of array_container_deserializer without the size test
array_container_deserializer_without_size_test(T, j, env) ==
    sequence_container_deserializer(T, j, env)

array_container_deserializer(T, j, env) ==
    IF j.k # "array" THEN NotArrayError
    ELSE IF Len(j.items) # T.size THEN ArityError(T.size, Len(j.items))
    ELSE LET rs == [i \in 1..T.size |-> deserializer(T.e, j.items[i], env)]
             f == FirstThrow(rs)
         IN  IF f # 0 THEN rs[f] ELSE Ok([i \in 1..T.size |-> rs[i].v])

serializer(T, v) ==
    CASE T.c = "prim" /\ T.n \in {"bool", "string"} -> basic_serializer(T.n, v)
      [] T.c = "prim" /\ T.n \in IntegerNames \cup FloatingNames -> numeric_serializer(T.n, v)
      [] T.c = "prim" /\ T.n \in PointerNames -> pointer_serializer(v)
      [] T.c = "custom" -> sample_enum_serializer(v)
      [] T.c = "unique_ptr" -> unique_pointer_serializer(T, v)
      [] T.c = "optional" -> optional_serializer(T, v)
      [] IsMap(T) -> map_serializer(T, v)
      [] T.c = "fusion" -> fusion_serializer(T, v)
      [] IsSequence(T) -> sequence_container_serializer(T, v)
      [] T.c = "array" -> array_container_serializer(T, v)

deserializer(T, j, env) ==
    CASE T.c = "prim" /\ T.n \in {"bool", "string"} -> basic_deserializer(T.n, j)
      [] T.c = "prim" /\ T.n \in IntegerNames \cup FloatingNames ->
            numeric_deserializer(T.n, j, env.native, env.ub)
      [] T.c = "prim" /\ T.n \in PointerNames -> pointer_deserializer(j, env.native, env.ub)
      [] T.c = "custom" -> sample_enum_deserializer(j)
      [] T.c = "unique_ptr" -> unique_pointer_deserializer(T, j, env)
      [] T.c = "optional" -> optional_deserializer(T, j, env)
      [] IsMap(T) -> map_deserializer(T, j, env)
      [] T.c = "fusion" -> fusion_deserializer(T, j, env)
      [] IsSequence(T) -> sequence_container_deserializer(T, j, env)
      [] T.c = "array" -> array_container_deserializer(T, j, env)

\* the public functions
serialize(T, v) == serializer(T, v)
deserialize(T, j, env) == deserializer(T, j, env)

---------------------------------------------------------------------------
\* The state machine: one public call per behaviour, and deserialize<T> of
\* the node a serialize call returned (the round trip).

\* bit patterns an out-of-range floating-to-integer conversion is seen to yield
UBOutcomes == {0, Pow2(W64 - 1), Pow2(W64) - 1}

Nothing == Throw("none", <<>>)

Env == [native |-> nativeWide, ub |-> ub]

Init ==
    /\ nativeWide \in BOOLEAN
    /\ ub \in UBOutcomes
    /\ call = <<"none", Nothing, Nothing, Nothing, Nothing>>

\* fuser::serialize(val)
Serialize(T, v) ==
    /\ call' = <<"serialize", T, v, serialize(T, v), Nothing>>
    /\ UNCHANGED <<nativeWide, ub>>

\* fuser::deserialize<T>(json)
Deserialize(T, j) ==
    /\ call' = <<"deserialize", T, Nothing, Ok(j), deserialize(T, j, Env)>>
    /\ UNCHANGED <<nativeWide, ub>>

\* fuser::deserialize<T>(fuser::serialize(val))
DeserializeSerialized ==
    /\ op = "serialize"
    /\ json.ok
    /\ call' = <<"round_trip", type, val, json, deserialize(type, json.v, Env)>>
    /\ UNCHANGED <<nativeWide, ub>>

Next ==
    \/ op = "none" /\ \E T \in Types : \E v \in Values(T) : Serialize(T, v)
    \/ op = "none" /\ \E T \in Types : \E j \in DeserializeInputs(T) : Deserialize(T, j)
    \/ DeserializeSerialized

Spec == Init /\ [][Next]_vars

---------------------------------------------------------------------------
\* What the claims speak of.

Deserializing == op = "deserialize"
Node == json.v

IntegerTypes == { Prim(n) : n \in IntegerNames }
NumericTypes == { Prim(n) : n \in IntegerNames \cup FloatingNames }

IsRangeError(r) ==
    ~r.ok /\ r.ex = "invalid_argument" /\ r.what[1].msg = "is outside allowed range"

IsTypeMismatch(r) == ~r.ok /\ r.ex = "type_error"

\* the members of an adapted struct, and what decoding each from the members
\* of Object j yields by the member's own strategy (member absent: none)
MemberPresent(m, j) == j.k = "object" /\ m.name \in DOMAIN j.members
MemberDecoded(m, j) == deserializer(m.type, j.members[m.name], Env)
MemberFine(m, j) == MemberPresent(m, j) /\ MemberDecoded(m, j).ok

\* member i is the first, in descriptor order, that is absent or does not decode
FirstBad(ms, i, j) ==
    /\ ~MemberFine(ms[i], j)
    /\ \A h \in 1..(i - 1) : MemberFine(ms[h], j)

\* operator== of the types: two unordered maps are equal when they hold the
\* same entries, in whatever order each iterates
RECURSIVE Equal(_, _, _)
Equal(T, a, b) ==
    CASE T.c = "unordered_map" ->
            /\ Len(a) = Len(b)
            /\ \A i \in 1..Len(a) : \E h \in 1..Len(b) :
                  a[i][1] = b[h][1] /\ Equal(T.mapped, a[i][2], b[h][2])
      [] T.c = "map" ->
            /\ Len(a) = Len(b)
            /\ \A i \in 1..Len(a) : a[i][1] = b[i][1] /\ Equal(T.mapped, a[i][2], b[i][2])
      [] IsNullable(T) -> a.has = b.has /\ (a.has => Equal(T.e, a.v, b.v))
      [] IsSequence(T) \/ T.c = "array" ->
            Len(a) = Len(b) /\ \A i \in 1..Len(a) : Equal(T.e, a[i], b[i])
      [] T.c = "fusion" ->
            \A i \in 1..Len(FusionMembers(T.name)) :
                LET m == FusionMembers(T.name)[i] IN Equal(m.type, a[m.name], b[m.name])
      [] OTHER -> a = b

---------------------------------------------------------------------------
\* C1: round-trip law: deserialize<T>(serialize(v)) completes without error
\* and returns a value equal to v, for every strategy and composition.
C1_RoundTrip ==
    op = "round_trip" => result.ok /\ Equal(type, result.v, val)

\* C2: range boundary: for every integer type T a Number node holding min(T)
\* or max(T) decodes to that bound, and one holding max(T) + 1 fails with the
\* range error.
C2_RangeBoundary ==
    (Deserializing /\ type \in IntegerTypes /\ Node.k = "number") =>
        /\ Node.n \in {numeric_limits_min(type.n), numeric_limits_max(type.n)}
              => result = Ok(Node.n)
        /\ Node.n = numeric_limits_max(type.n) + 1 => IsRangeError(result)

\* C3: integer decode never wraps: an integer Number node n decodes to exactly
\* n when min(T) <= n <= max(T) and fails with the range error otherwise.
C3_NeverWraps ==
    (Deserializing /\ type \in IntegerTypes /\ Node.k = "number") =>
        IF numeric_limits_min(type.n) <= Node.n /\ Node.n <= numeric_limits_max(type.n)
        THEN result = Ok(Node.n)
        ELSE IsRangeError(result)

\* C4: a member that is present in the Object but does not decode as the
\* field's type makes the record's decode fail with the invalid-field error
\* naming that field and carrying the member's failure, not with the
\* missing-field error.
C4_InvalidField ==
    (Deserializing /\ type.c = "fusion" /\ Node.k = "object") =>
        \A i \in 1..Len(FusionMembers(type.name)) :
            LET ms == FusionMembers(type.name) IN
            (FirstBad(ms, i, Node) /\ MemberPresent(ms[i], Node)) =>
                /\ ~result.ok
                /\ Head(result.what).msg = "value of name is invalid"
                /\ Head(result.what).name = ms[i].name
                /\ Tail(result.what) = MemberDecoded(ms[i], Node).what

\* C5 as stated: an Object lacking a member for a descriptor field fails with
\* the missing-field error, whose message names a field the Object lacks and
\* that field's declared type.
C5_MissingField ==
    (Deserializing /\ type.c = "fusion" /\ Node.k = "object") =>
        LET ms == FusionMembers(type.name)
            missing == { i \in 1..Len(ms) : ~MemberPresent(ms[i], Node) }
        IN  missing # {} => \E i \in missing : result = NoValueError(ms[i], Node)

\* C5 amended: an Object lacking a member for a descriptor field never decodes
\* to a record; when every earlier descriptor field is present and decodes,
\* the failure is the missing-field error naming that field and its declared
\* type, and otherwise it is the failure of an earlier field.
C5_FirstMissingField ==
    (Deserializing /\ type.c = "fusion" /\ Node.k = "object") =>
        \A i \in 1..Len(FusionMembers(type.name)) :
            LET ms == FusionMembers(type.name) IN
            ~MemberPresent(ms[i], Node) =>
                /\ ~result.ok
                /\ IF FirstBad(ms, i, Node)
                   THEN result = NoValueError(ms[i], Node)
                   ELSE \E h \in 1..(i - 1) :
                           /\ FirstBad(ms, h, Node)
                           /\ result = fusion_deserializer_impl(ms[h], Node, Env)

C5_Witness ==
    /\ Deserializing /\ type = Fusion("integer_struct") /\ Node.k = "object"
    /\ DOMAIN Node.members = {"u8"}
    /\ ~result.ok /\ result.what[1].msg = "no value of name" /\ result.what[1].name = "i64"

\* the key strategies that never output a String node
NeverStringKeys == { K \in KeyTypes : \A x \in Values(K) : serializer(K, x).v.k # "string" }

\* C6 as stated: with a key strategy that never outputs a String node, every
\* encode of the map type fails with the key-encoding error, whatever the
\* number of entries.
C6_EveryEncodeFails ==
    (op = "serialize" /\ IsMap(type) /\ type.key \in NeverStringKeys) => json = KeyError

\* C6 amended: with such a key strategy every encode of a map with at least
\* one entry fails with the key-encoding error, and the encode of the empty
\* map returns the empty Object.
C6_NonEmptyEncodeFails ==
    (op = "serialize" /\ IsMap(type) /\ type.key \in NeverStringKeys) =>
        IF Len(val) > 0 THEN json = KeyError ELSE json = Ok(Obj(<<>>))

C6_Witness ==
    /\ op = "serialize" /\ IsMap(type) /\ type.key \in NeverStringKeys
    /\ Len(val) = MaxLen /\ json = KeyError

\* C7: an Array node whose length differs from N fails the decode into a
\* fixed-size collection of size N with the arity error, whatever its
\* elements; one of length N whose elements all decode yields the decoded
\* elements at the same indices.
C7_Arity ==
    (Deserializing /\ type.c = "array" /\ Node.k = "array") =>
        LET elem(i) == deserializer(type.e, Node.items[i], Env) IN
        /\ Len(Node.items) # type.size => result = ArityError(type.size, Len(Node.items))
        /\ (Len(Node.items) = type.size /\ \A i \in 1..type.size : elem(i).ok) =>
              /\ result.ok
              /\ Len(result.v) = type.size
              /\ \A i \in 1..type.size : result.v[i] = elem(i).v

C7_Witness ==
    /\ Deserializing /\ type.c = "array" /\ Node.k = "array"
    /\ Len(Node.items) = type.size + 1
    /\ \E i \in 1..Len(Node.items) : ~deserializer(type.e, Node.items[i], Env).ok
    /\ result = ArityError(type.size, type.size + 1)

\* C8: nullable wrappers: an absent value encodes to Null and a present one to
\* the inner strategy's encoding of the held value; Null decodes to absent and
\* any other node to present holding the inner strategy's decode of the node,
\* or fails with the inner strategy's failure.
C8_Nullable ==
    /\ (op = "serialize" /\ IsNullable(type)) =>
          IF val.has THEN json = serializer(type.e, val.v) ELSE json = Ok(Null)
    /\ (Deserializing /\ IsNullable(type)) =>
          IF Node = Null THEN result = Ok([has |-> FALSE])
          ELSE LET inner == deserializer(type.e, Node, Env)
               IN  IF inner.ok THEN result = Ok([has |-> TRUE, v |-> inner.v])
                   ELSE result = inner

C8_Witness ==
    /\ Deserializing /\ type = Optional(Prim("uint8_t"))
    /\ Node = Num(Pow2(W8) - 1)
    /\ result = Ok([has |-> TRUE, v |-> Pow2(W8) - 1])

\* the node variant a primitive strategy reads
ExpectedVariants(T) ==
    CASE T = Prim("bool") -> {"boolean"}
      [] T = Prim("string") -> {"string"}
      [] T \in NumericTypes -> {"number", "float"}

\* C9: bool, string and every numeric strategy fail with the type-mismatch
\* error on Null and on any node of a variant other than the one expected.
C9_TypeMismatch ==
    (Deserializing /\ type \in {Prim("bool"), Prim("string")} \cup NumericTypes
        /\ Node.k \notin ExpectedVariants(type)) => IsTypeMismatch(result)

\* the member names a failure names, outermost first, and the parts of its
\* what() that are not the record strategy's own
IsFieldPart(p) == p.msg \in {"no value of name", "value of name is invalid"}
FieldNames(what) ==
    LET parts == SelectSeq(what, IsFieldPart) IN [i \in 1..Len(parts) |-> parts[i].name]
LeafCause(what) == SelectSeq(what, LAMBDA p : ~IsFieldPart(p))

\* the path of member names from record type T down to the first member that
\* is absent or fails in a strategy that is not a record's, and that failure
RECURSIVE FailingPath(_, _)
FailingPath(T, j) ==
    LET ms == FusionMembers(T.name)
        i == CHOOSE i \in 1..Len(ms) : FirstBad(ms, i, j)
        m == ms[i]
    IN  IF MemberPresent(m, j) /\ m.type.c = "fusion"
        THEN <<m.name>> \o FailingPath(m.type, j.members[m.name])
        ELSE <<m.name>>

RECURSIVE LeafFailure(_, _)
LeafFailure(T, j) ==
    LET ms == FusionMembers(T.name)
        i == CHOOSE i \in 1..Len(ms) : FirstBad(ms, i, j)
        m == ms[i]
    IN  IF ~MemberPresent(m, j) THEN <<>>
        ELSE IF m.type.c = "fusion" THEN LeafFailure(m.type, j.members[m.name])
        ELSE MemberDecoded(m, j).what

\* C10: a failure inside a sequence, array, map or nullable wrapper reaches
\* the caller unmodified, and a failure under d nested records names the d
\* fields of the path and still holds the leaf cause.
C10_Propagation ==
    /\ (Deserializing /\ (IsSequence(type) \/ type.c = "array") /\ Node.k = "array"
          /\ (type.c = "array" => Len(Node.items) = type.size)) =>
          \A i \in 1..Len(Node.items) :
              LET elem(h) == deserializer(type.e, Node.items[h], Env) IN
              (~elem(i).ok /\ \A h \in 1..(i - 1) : elem(h).ok) => result = elem(i)
    /\ (Deserializing /\ type.c = "fusion" /\ Node.k = "object" /\ ~result.ok) =>
          /\ FieldNames(result.what) = FailingPath(type, Node)
          /\ LeafCause(result.what) = LeafFailure(type, Node)

\* the value a Number or floating node holds, in grid steps
NodeValue(j) == IF j.k = "number" THEN j.n * FloatUnit ELSE j.f

FloatingTypes == { Prim(n) : n \in FloatingNames }

\* C11: floating decode rejects nothing inside the target's own range: a
\* Number node whose value the floating target can represent, zero and
\* negative values included, decodes instead of failing with the range error.
C11_NoFloatRangeRejection ==
    (Deserializing /\ type \in FloatingTypes /\ Node.k \in {"number", "float"}
        /\ -numeric_limits_max(type.n) <= NodeValue(Node)
        /\ NodeValue(Node) <= numeric_limits_max(type.n)) =>
        result = Ok(NodeValue(Node))

---------------------------------------------------------------------------
\* Resolution: which specialization of serializer<T> / deserializer<T> the
\* compiler selects.  Both templates have the same specializations, so one
\* table serves both.

\* a type the library and the caller do not mention
Other(n) == [c |-> "other", name |-> n]
NullptrT == Prim("nullptr_t")

\* the types the library names in an explicit specialization (template <>),
\* and the strategy each inherits
ExactStrategy(T) ==
    CASE T \in {Prim("bool"), Prim("string")} -> "basic"
      [] T = NullptrT -> "null"
      [] T \in NumericTypes -> "numeric"
      [] T \in { Prim(n) : n \in PointerNames } -> "pointer"
      [] OTHER -> "none"

\* the partial specializations, matched by the shape of T; the one for boost
\* fusion sequences is enabled by is_sequence<T>, true of the adapted structs
StructuralStrategies(T) ==
    { s \in {"unique_pointer", "optional", "map", "fusion", "sequence_container",
             "array_container"} :
        \/ s = "unique_pointer" /\ T.c = "unique_ptr"
        \/ s = "optional" /\ T.c = "optional"
        \/ s = "map" /\ IsMap(T)
        \/ s = "fusion" /\ T.c = "fusion"
        \/ s = "sequence_container" /\ IsSequence(T)
        \/ s = "array_container" /\ T.c = "array" }

Selected(origin, strategy) == [ok |-> TRUE, origin |-> origin, strategy |-> strategy]
BuildError(error) == [ok |-> FALSE, error |-> error]

\* a variant of Select in which a type no specialization matches falls back
\* to the basic strategy instead of the primary template's static_assert
Select_falling_back(registered, T) ==
    IF T \in registered /\ ExactStrategy(T) # "none" THEN BuildError("redefinition")
    ELSE IF T \in registered THEN Selected("caller", "caller")
    ELSE IF ExactStrategy(T) # "none" THEN Selected("exact", ExactStrategy(T))
    ELSE IF Cardinality(StructuralStrategies(T)) > 1 THEN BuildError("ambiguous")
    ELSE IF StructuralStrategies(T) # {}
         THEN Selected("structural", CHOOSE s \in StructuralStrategies(T) : TRUE)
    ELSE Selected("exact", "basic")

\* the specialization selected for T in a translation unit where the caller
\* has written an explicit specialization for each type of registered
Select(registered, T) ==
    IF T \in registered /\ ExactStrategy(T) # "none" THEN BuildError("redefinition")
    ELSE IF T \in registered THEN Selected("caller", "caller")
    ELSE IF ExactStrategy(T) # "none" THEN Selected("exact", ExactStrategy(T))
    ELSE IF Cardinality(StructuralStrategies(T)) > 1 THEN BuildError("ambiguous")
    ELSE IF StructuralStrategies(T) # {}
         THEN Selected("structural", CHOOSE s \in StructuralStrategies(T) : TRUE)
    ELSE BuildError("static_assert")

\* the types whose strategy the strategy of T calls
Components(T) ==
    CASE IsNullable(T) \/ IsSequence(T) \/ T.c = "array" -> {T.e}
      [] IsMap(T) -> {T.key, T.mapped}
      [] T.c = "fusion" ->
            { FusionMembers(T.name)[i].type : i \in 1..Len(FusionMembers(T.name)) }
      [] OTHER -> {}

\* T and every type nested in it
RECURSIVE Subtypes(_)
Subtypes(T) == {T} \cup UNION { Subtypes(U) : U \in Components(T) }

\* what building a call of serialize<T> or deserialize<T> comes to: the
\* selection for T, or the first error among the specializations it
\* instantiates (a caller's specialization is taken to compile)
RECURSIVE Instantiate(_, _)
Instantiate(registered, T) ==
    LET redefined == { U \in registered : ExactStrategy(U) # "none" }
        sel == Select(registered, T)
        inner == { Instantiate(registered, U) : U \in Components(T) }
        errors == { r \in inner : ~r.ok }
    IN  IF redefined # {} THEN BuildError("redefinition")
        ELSE IF ~sel.ok \/ sel.origin = "caller" THEN sel
        ELSE IF errors # {} THEN CHOOSE r \in errors : TRUE
        ELSE sel

\* The translation units tried: the types the caller writes an explicit
\* specialization for, and the types serialize<T> / deserialize<T> is built for.
CallerCandidates ==
    {SampleEnum, Prim("bool"), Vector(Prim("uint8_t")), Fusion("integer_struct")}

UnmatchedTypes == {Other("char16_t"), Other("std::shared_ptr<int>")}

ResolveTypes ==
    Types \cup UnmatchedTypes \cup
    { NullptrT, Optional(Prim("bool")), UniquePtr(Fusion("integer_struct")),
      Array(Vector(Prim("uint8_t")), MaxLen), Map(Prim("string"), Vector(Prim("uint8_t"))),
      Vector(Other("char16_t")), Optional(Other("std::shared_ptr<int>")),
      UniquePtr(Vector(Other("char16_t"))), Array(Other("char16_t"), MaxLen),
      Map(Other("char16_t"), Prim("bool")), UnorderedMap(Prim("string"), Other("char16_t")) }

\* building a program that calls serialize<T> or deserialize<T>:
\* call = <<"build", T, the caller's specializations, selection for T, outcome>>
Build(registered, T) ==
    /\ op = "none"
    /\ call' = <<"build", T, registered, Select(registered, T), Instantiate(registered, T)>>
    /\ UNCHANGED <<nativeWide, ub>>

NextResolve == \E registered \in SUBSET CallerCandidates : \E T \in ResolveTypes : Build(registered, T)

SpecResolve == Init /\ [][NextResolve]_vars

Building == op = "build"
Registered == val
Selection == json

\* C12: resolver priority: resolution never leaves two strategies for a type,
\* and a strategy the caller registered for exactly T is the one selected for
\* T, at top level and wherever T occurs nested, in preference to any
\* built-in exact or structural rule that matches T.
C12_ResolverPriority ==
    Building =>
        /\ Selection.ok \/ Selection.error = "static_assert"
        /\ \A U \in Subtypes(type) \cap Registered :
              Select(Registered, U) = Selected("caller", "caller")
        /\ type \in Registered => result = Selected("caller", "caller")

\* no specialization of the caller or of the library matches T
NoRule(registered, T) ==
    T \notin registered /\ ExactStrategy(T) = "none" /\ StructuralStrategies(T) = {}

\* T, or a type a library strategy reaches from T, has no rule
RECURSIVE Unresolved(_, _)
Unresolved(registered, T) ==
    \/ NoRule(registered, T)
    \/ T \notin registered /\ \E U \in Components(T) : Unresolved(registered, U)

\* C14: closed-world resolution: a type no registered, exact or structural
\* rule matches is selected no strategy but the primary template's
\* static_assert, and no program calling serialize or deserialize for it, or
\* for a type that reaches it, builds.
C14_ClosedWorld ==
    Building =>
        /\ NoRule(Registered, type) => Selection = BuildError("static_assert")
        /\ Unresolved(Registered, type) => ~result.ok

C14_Witness ==
    /\ Building /\ Registered = {SampleEnum}
    /\ type = UniquePtr(Vector(Other("char16_t")))
    /\ Selection.ok /\ result = BuildError("static_assert")

\* C13: encode totality: serialize returns a node for every value of every
\* resolved type, except that it throws the key-encoding error of the map
\* strategy, and then a map type whose keys do not encode to strings is T or
\* nested in T.
C13_EncodeTotality ==
    op = "serialize" =>
        \/ json.ok
        \/ /\ json = KeyError
           /\ \E M \in Subtypes(type) : IsMap(M) /\ M.key \in NeverStringKeys

C13_Witness ==
    /\ op = "serialize" /\ type = Optional(Map(Prim("uint8_t"), Prim("bool")))
    /\ val.has /\ Len(val.v) > 0 /\ json = KeyError

\* C15: dynamic sequences: a container of n elements encodes to an Array node
\* of length n whose i-th item is the element strategy's encoding of the i-th
\* element; an Array node decodes to a container of the same length whose i-th
\* element is the element strategy's decode of the i-th item; a node that is
\* no Array fails with the sequence strategy's mismatch error.
C15_DynamicSequence ==
    /\ (op = "serialize" /\ IsSequence(type)) =>
          /\ json.ok /\ json.v.k = "array"
          /\ Len(json.v.items) = Len(val)
          /\ \A i \in 1..Len(val) : Ok(json.v.items[i]) = serializer(type.e, val[i])
    /\ (Deserializing /\ IsSequence(type)) =>
          IF Node.k # "array" THEN result = NotArrayError
          ELSE LET elem(i) == deserializer(type.e, Node.items[i], Env) IN
               (\A i \in 1..Len(Node.items) : elem(i).ok) =>
                   /\ result.ok
                   /\ Len(result.v) = Len(Node.items)
                   /\ \A i \in 1..Len(Node.items) : Ok(result.v[i]) = elem(i)

C15_Witness ==
    /\ Deserializing /\ type = Deque(Optional(Prim("int8_t")))
    /\ Node = Arr(<<Null, Num(-1)>>)
    /\ result = Ok(<<[has |-> FALSE], [has |-> TRUE, v |-> -1]>>)

\* C16: composite encode: a record encodes to an Object node whose member
\* names are exactly the descriptor's field names and whose member for each
\* field is the field strategy's encoding of the field's value.
C16_CompositeEncode ==
    (op = "serialize" /\ type.c = "fusion") =>
        LET ms == FusionMembers(type.name)
            encoded(i) == serializer(ms[i].type, val[ms[i].name])
        IN  (\A i \in 1..Len(ms) : encoded(i).ok) =>
                /\ json.ok /\ json.v.k = "object"
                /\ DOMAIN json.v.members = { ms[i].name : i \in 1..Len(ms) }
                /\ \A i \in 1..Len(ms) : Ok(json.v.members[ms[i].name]) = encoded(i)

C16_Witness ==
    /\ op = "serialize" /\ type = Fusion("smart_pointer_struct")
    /\ val.i.has /\ ~val.e.has
    /\ json = Ok(Obj([i |-> Num(val.i.v), e |-> Null]))

\* C17: map encode: the Object has one member per distinct encoded key
\* string; the member of a key string is the value strategy's encoding of the
\* last entry, in the map's iteration order, whose key encodes to it; with all
\* key strings distinct the Object has as many members as the map has entries.
C17_LastWriteWins ==
    (op = "serialize" /\ IsMap(type) /\ json.ok) =>
        LET key(i) == serializer(type.key, val[i][1]).v.s
            last(s) == CHOOSE i \in 1..Len(val) :
                          key(i) = s /\ \A h \in (i + 1)..Len(val) : key(h) # s
            members == json.v.members
        IN  /\ json.v.k = "object"
            /\ DOMAIN members = { key(i) : i \in 1..Len(val) }
            /\ \A s \in DOMAIN members : Ok(members[s]) = serializer(type.mapped, val[last(s)][2])
            /\ (\A i, h \in 1..Len(val) : key(i) = key(h) => i = h) =>
                  Cardinality(DOMAIN members) = Len(val)

C17_Witness ==
    /\ op = "serialize" /\ type = UnorderedMap(SampleEnum, Prim("int8_t"))
    /\ val = << <<"other", 1>>, <<"unknown", 0>> >>
    /\ json = Ok(Obj("(unknown)" :> Num(0)))

\* Objects a and b hold the same member, or none, for every field of record
\* type T
AgreeOnFields(T, a, b) ==
    /\ a.k = "object" /\ b.k = "object"
    /\ \A i \in 1..Len(FusionMembers(T.name)) :
          LET n == FusionMembers(T.name)[i].name IN
          /\ n \in DOMAIN a.members <=> n \in DOMAIN b.members
          /\ n \in DOMAIN a.members => a.members[n] = b.members[n]

\* an outcome without the rendering of the offending object that the record
\* strategy's errors carry
Diagnosis(r) ==
    IF r.ok THEN r
    ELSE Throw(r.ex, [i \in 1..Len(r.what) |->
                        IF IsFieldPart(r.what[i])
                        THEN [msg |-> r.what[i].msg, name |-> r.what[i].name,
                              type |-> r.what[i].type]
                        ELSE r.what[i]])

FusionNodes(T) == { j \in NodesFor(T) : j.k = "object" }

\* C18 as stated: two Objects that agree on every descriptor field name decode
\* to equal records or fail with the same error.
C18_OnlyDescriptorMembers ==
    (Deserializing /\ type.c = "fusion" /\ Node.k = "object") =>
        \A j \in FusionNodes(type) :
            AgreeOnFields(type, Node, j) => deserialize(type, j, Env) = result

\* C18 amended: two Objects that agree on every descriptor field name decode
\* to equal records, or fail with errors of the same kind that name the same
\* fields and hold the same inner cause and differ at most in the rendering of
\* the offending Object; extra members never cause a failure.
C18_SameDiagnosis ==
    (Deserializing /\ type.c = "fusion" /\ Node.k = "object") =>
        \A j \in FusionNodes(type) :
            AgreeOnFields(type, Node, j) =>
                Diagnosis(deserialize(type, j, Env)) = Diagnosis(result)

C18_Witness ==
    /\ Deserializing /\ type = Fusion("integer_struct") /\ Node.k = "object"
    /\ DOMAIN Node.members = {"u8", "i64", ExtraMember}
    /\ \E j \in FusionNodes(type) :
          /\ AgreeOnFields(type, Node, j) /\ ExtraMember \notin DOMAIN j.members
          /\ deserialize(type, j, Env) = result /\ result.ok

---------------------------------------------------------------------------
\* fusion_deserializer::deserialize step by step: boost::fusion::for_each
\* calls fusion_deserializer_impl::operator() for index 0, 1, ... in turn, and
\* an exception thrown by a call leaves for_each and deserialize.
\* call = <<"for_each", T, [visited, seq], node given, outcome once known>>,
\* visited the names of the members operator() was called for, seq the
\* members of the struct assigned so far.

\* a variant of for_each_next that goes on to the next member after a call
\* has thrown
for_each_next_after_throw(T, visited, r) ==
    IF Len(visited) = Len(FusionMembers(T.name)) THEN 0 ELSE Len(visited) + 1

\* the index of the member for_each visits next, 0 when it visits no more
for_each_next(T, visited, r) ==
    IF ~r.ok /\ r.ex # "none" THEN 0
    ELSE IF Len(visited) = Len(FusionMembers(T.name)) THEN 0
    ELSE Len(visited) + 1

DeserializeFusion(T, j) ==
    /\ op = "none"
    /\ call' = <<"for_each", T, [visited |-> <<>>, seq |-> <<>>], Ok(j), Nothing>>
    /\ UNCHANGED <<nativeWide, ub>>

ForEachCall ==
    /\ op = "for_each"
    /\ for_each_next(type, val.visited, result) # 0
    /\ LET ms == FusionMembers(type.name)
           i == for_each_next(type, val.visited, result)
           r == fusion_deserializer_impl(ms[i], json.v, Env)
           seq == IF r.ok THEN val.seq @@ (ms[i].name :> r.v) ELSE val.seq
       IN  call' = << "for_each", type,
                      [visited |-> Append(val.visited, ms[i].name), seq |-> seq],
                      json,
                      IF ~r.ok THEN r ELSE IF i = Len(ms) THEN Ok(seq) ELSE result >>
    /\ UNCHANGED <<nativeWide, ub>>

NextForEach ==
    \/ op = "none" /\ \E T \in { T \in Types : T.c = "fusion" } :
                        \E j \in NodesFor(T) : DeserializeFusion(T, j)
    \/ ForEachCall

SpecForEach == Init /\ [][NextForEach]_vars

\* C19: composite decode visits the fields in descriptor order and stops at
\* the first failure: the fields visited are a prefix of the descriptor, the
\* error is the one of the earliest field that is missing or invalid, no field
\* after that one is visited, and the outcome is the one deserialize returns.
C19_FirstFailureStops ==
    op = "for_each" =>
        LET ms == FusionMembers(type.name)
            n == Len(val.visited)
        IN  /\ n <= Len(ms)
            /\ \A i \in 1..n : val.visited[i] = ms[i].name
            /\ \A i \in 1..(n - 1) : fusion_deserializer_impl(ms[i], Node, Env).ok
            /\ (\E i \in 1..Len(ms) : ~fusion_deserializer_impl(ms[i], Node, Env).ok) =>
                  n <= (CHOOSE i \in 1..Len(ms) :
                           /\ ~fusion_deserializer_impl(ms[i], Node, Env).ok
                           /\ \A h \in 1..(i - 1) : fusion_deserializer_impl(ms[h], Node, Env).ok)
            /\ result # Nothing =>
                  /\ result = deserialize(type, Node, Env)
                  /\ ~result.ok => result = fusion_deserializer_impl(ms[n], Node, Env)

C19_Witness ==
    /\ op = "for_each" /\ type = Fusion("integer_struct")
    /\ Node = Obj("i64" :> Str("foo"))
    /\ val.visited = <<"u8">>
    /\ ~result.ok /\ result.what[1].name = "u8"

====
